---- MODULE Spec2Model ----
(***************************************************************************)
(* Model of brownian_script.js: the Box-Muller generator with its one-value *)
(* cache, simulateBrownianMotion, and runSimulation with the histogram of   *)
(* renderFinalDistribution.                                                 *)
(*                                                                          *)
(* Numbers.  A JavaScript double is modelled as a record: a finite value in *)
(* thousandths (fixed point), NaN, +Infinity or -Infinity.  The comparison  *)
(* and arithmetic operators below follow IEEE-754 on the special values.    *)
(*                                                                          *)
(* Math.random.  The stream of uniforms is a periodic tape chosen at page   *)
(* load; a uniform is one of 0, 1/4, 1/2, 3/4, written 0..3.                *)
(***************************************************************************)
EXTENDS Integers, Sequences, FiniteSets, TLC

VARIABLES
    source,                 \* Math.random: [tape, pos]
    uniformsDrawn,          \* history: number of Math.random() calls since page load
    normalCalls,            \* history: number of generateStandardNormal() calls since page load
    callLog,                \* history: the last two completed generateStandardNormal() calls
    hasSecondBoxMuller,     \* line 9
    secondBoxMullerValue,   \* line 10
    gen,                    \* activation of generateStandardNormal (step-level)
    sim,                    \* activation of simulateBrownianMotion (step-level)
    lastSim,                \* history: the latest completed simulateBrownianMotion call
    prevSim,                \* history: the completed call before lastSim
    simCount,               \* history: completed direct calls of simulateBrownianMotion
    run,                    \* activation of runSimulation
    brownianPathChartInstance,       \* line 3
    finalDistributionChartInstance,  \* line 4
    alerts,                 \* number of alert() dialogs shown
    runCount                \* history: number of runSimulation invocations

vars == <<source, uniformsDrawn, normalCalls, callLog, hasSecondBoxMuller, secondBoxMullerValue,
          gen, sim, lastSim, prevSim, simCount, run,
          brownianPathChartInstance, finalDistributionChartInstance, alerts, runCount>>

(***************************************************************************)
(* Bounds of the model.                                                     *)
(***************************************************************************)
MaxN == 3
MaxSims == 2
MaxRuns == 2

(***************************************************************************)
(* Doubles.                                                                 *)
(***************************************************************************)
Num(x) == [k |-> "num", v |-> x]
NaN == [k |-> "nan", v |-> 0]
PosInf == [k |-> "inf", v |-> 1]
NegInf == [k |-> "inf", v |-> -1]
Zero == Num(0)

isNaN(a) == a.k = "nan"
IsFinite(a) == a.k = "num"

Sign(x) == IF x > 0 THEN 1 ELSE IF x < 0 THEN -1 ELSE 0
Abs(x) == IF x < 0 THEN -x ELSE x

\* a < b
FLt(a, b) ==
    CASE isNaN(a) \/ isNaN(b) -> FALSE
      [] a.k = "inf" /\ b.k = "inf" -> a.v < b.v
      [] a.k = "inf" -> a.v < 0
      [] b.k = "inf" -> b.v > 0
      [] OTHER -> a.v < b.v

\* a > b
FGt(a, b) == FLt(b, a)

\* a === b
FEq(a, b) == ~isNaN(a) /\ ~isNaN(b) /\ a = b

\* a <= b
FLe(a, b) == FLt(a, b) \/ FEq(a, b)

\* a + b
FAdd(a, b) ==
    CASE isNaN(a) \/ isNaN(b) -> NaN
      [] a.k = "inf" /\ b.k = "inf" -> IF a.v = b.v THEN a ELSE NaN
      [] a.k = "inf" -> a
      [] b.k = "inf" -> b
      [] OTHER -> Num(a.v + b.v)

FNeg(a) == IF isNaN(a) THEN NaN ELSE [k |-> a.k, v |-> -a.v]

\* a - b
FSub(a, b) == FAdd(a, FNeg(b))

\* a * b, both in thousandths; the product is truncated to thousandths
FMul(a, b) ==
    CASE isNaN(a) \/ isNaN(b) -> NaN
      [] a.k = "inf" \/ b.k = "inf" ->
            IF Sign(a.v) * Sign(b.v) = 0 THEN NaN
            ELSE [k |-> "inf", v |-> Sign(a.v) * Sign(b.v)]
      [] OTHER -> Num(Sign(a.v) * Sign(b.v) * ((Abs(a.v) * Abs(b.v)) \div 1000))

\* The largest r in lo..hi with r * r <= x (lo * lo <= x).
RECURSIVE ISqrtIn(_, _, _)
ISqrtIn(x, lo, hi) ==
    IF lo >= hi THEN lo
    ELSE LET mid == (lo + hi + 1) \div 2
         IN  IF mid <= x \div mid THEN ISqrtIn(x, mid, hi) ELSE ISqrtIn(x, lo, mid - 1)

ISqrt(x) == ISqrtIn(x, 0, x)

(***************************************************************************)
(* Math.random(): the uniform source.                                       *)
(***************************************************************************)
Tapes == { <<2, 2, 1, 3>>, <<0, 1, 1>>, <<3, 0, 0, 2, 1>>, <<1, 3>> }

NextUniform(src) == src.tape[src.pos]
\* The uniform the source yields j draws after the position of src.
UniformAt(src, j) == src.tape[((src.pos - 1 + j) % Len(src.tape)) + 1]
Advance(src) == [src EXCEPT !.pos = (src.pos % Len(src.tape)) + 1]

(***************************************************************************)
(* generateStandardNormal, lines 12-38.                                     *)
(***************************************************************************)
\* Math.sqrt(-2.0 * Math.log(u1)) in thousandths, u1 = 1/4, 1/2, 3/4; log(0) = -Infinity
Radius(u1) ==
    CASE u1 = 0 -> PosInf
      [] u1 = 1 -> Num(1665)
      [] u1 = 2 -> Num(1177)
      [] u1 = 3 -> Num(759)

\* Math.cos(2.0 * Math.PI * u2) and Math.sin(2.0 * Math.PI * u2), in thousandths
Cos(u2) == Num(1000 * (CASE u2 = 0 -> 1 [] u2 = 1 -> 0 [] u2 = 2 -> -1 [] u2 = 3 -> 0))
Sin(u2) == Num(1000 * (CASE u2 = 0 -> 0 [] u2 = 1 -> 1 [] u2 = 2 -> 0 [] u2 = 3 -> -1))

Z1(u1, u2) == FMul(Radius(u1), Cos(u2))
Z2(u1, u2) == FMul(Radius(u1), Sin(u2))

\* The globals an evaluation of the generator reads and writes.
Globals == [src |-> source, has |-> hasSecondBoxMuller, val |-> secondBoxMullerValue,
            drawn |-> uniformsDrawn, calls |-> normalCalls, log |-> callLog]

\* The history record of one completed call, and the log with it added.
CallRecord(hadCache, ret, consumed, u1Draws, src0, flagAfter, stored) ==
    [hadCache |-> hadCache, ret |-> ret, consumed |-> consumed, u1Draws |-> u1Draws,
     src0 |-> src0, flagAfter |-> flagAfter, stored |-> stored]

Logged(log, rec) == IF Len(log) < 2 THEN Append(log, rec) ELSE <<log[2], rec>>

\* do { u1 = Math.random(); } while (u1 === 0);  k counts the draws made
RECURSIVE DrawU1(_, _)
DrawU1(src, k) ==
    LET u == NextUniform(src)
    IN  IF u = 0 THEN DrawU1(Advance(src), k + 1)
        ELSE [u1 |-> u, src |-> Advance(src), k |-> k + 1]

\* One whole call: the value returned, the uniforms it consumed, the globals after it.
generateStandardNormal(g) ==
    IF g.has
    THEN [ret |-> g.val, consumed |-> 0,
          g |-> [g EXCEPT !.has = FALSE, !.calls = @ + 1,
                          !.log = Logged(@, CallRecord(TRUE, g.val, 0, 0, g.src,
                                                       FALSE, g.val))]]
    ELSE LET d == DrawU1(g.src, 0)
             u2 == NextUniform(d.src)
         IN  [ret |-> Z1(d.u1, u2), consumed |-> d.k + 1,
              g |-> [src |-> Advance(d.src), has |-> TRUE, val |-> Z2(d.u1, u2),
                     drawn |-> g.drawn + d.k + 1, calls |-> g.calls + 1,
                     log |-> Logged(g.log, CallRecord(FALSE, Z1(d.u1, u2), d.k + 1, d.k,
                                                      g.src, TRUE, Z2(d.u1, u2)))]]

(***************************************************************************)
(* simulateBrownianMotion, lines 41-65.                                     *)
(***************************************************************************)
\* Math.sqrt(T / n) in thousandths (lines 42-43); n is an integer >= 0
SqrtDt(T, n) ==
    CASE isNaN(T) -> NaN
      [] T.k = "inf" -> IF T.v > 0 THEN PosInf ELSE NaN
      [] n = 0 -> IF T.v > 0 THEN PosInf ELSE NaN
      [] T.v < 0 -> NaN
      [] OTHER -> Num(ISqrt((T.v * 1000) \div n))

\* One iteration of the for loop (lines 49-59) on the loop state st.
\* zs and ds are history: the variate of each step and the uniforms its call consumed.
SimStep(st, sqrt_dt) ==
    LET r == generateStandardNormal(st.g)
        jump == FMul(sqrt_dt, r.ret)
        current == FAdd(st.current_value, jump)
    IN  [i |-> st.i + 1,
         g |-> r.g,
         path_values |-> Append(st.path_values, current),
         current_value |-> current,
         zs |-> Append(st.zs, r.ret),
         ds |-> Append(st.ds, r.consumed)]

\* for (let i = 0; i < n; i++), run up to the iteration with i = limit - 1
RECURSIVE SimBlock(_, _, _)
SimBlock(limit, sqrt_dt, st) ==
    IF st.i < limit THEN SimBlock(limit, sqrt_dt, SimStep(st, sqrt_dt)) ELSE st

\* The whole loop of line 49, evaluated in blocks of BlockLen iterations so that
\* the depth of the evaluation stays small; the result is SimStep iterated n times.
BlockLen == 10

RECURSIVE SimLoop(_, _, _)
SimLoop(n, sqrt_dt, st) ==
    IF st.i < n
    THEN SimLoop(n, sqrt_dt,
                 SimBlock(IF st.i + BlockLen < n THEN st.i + BlockLen ELSE n, sqrt_dt, st))
    ELSE st

\* simulateBrownianMotion starting from an emptied cache.
simulateBrownianMotion_ResetCache(T, n, g) ==
    LET st == SimLoop(n, SqrtDt(T, n),
                      [i |-> 0, g |-> [g EXCEPT !.has = FALSE], path_values |-> <<>>,
                       current_value |-> Zero, zs |-> <<>>, ds |-> <<>>])
    IN  [path_values |-> st.path_values, final_value |-> st.current_value,
         g |-> st.g, zs |-> st.zs, ds |-> st.ds]

\* The whole call from globals g: the returned object, the globals after, the history.
simulateBrownianMotion(T, n, g) ==
    LET st == SimLoop(n, SqrtDt(T, n),
                      [i |-> 0, g |-> g, path_values |-> <<>>, current_value |-> Zero,
                       zs |-> <<>>, ds |-> <<>>])
    IN  [path_values |-> st.path_values, final_value |-> st.current_value,
         g |-> st.g, zs |-> st.zs, ds |-> st.ds]

\* The history record of a completed call.
SimRecord(T, n, g0, res) ==
    [T |-> T, n |-> n, start |-> [src |-> g0.src, has |-> g0.has, val |-> g0.val],
     path_values |-> res.path_values, final_value |-> res.final_value,
     zs |-> res.zs, ds |-> res.ds, calls |-> res.g.calls - g0.calls,
     endHas |-> res.g.has, endVal |-> res.g.val]

NoSim ==
    [T |-> NaN, n |-> -1, start |-> [src |-> [tape |-> <<0>>, pos |-> 1], has |-> FALSE, val |-> Zero],
     path_values |-> <<>>, final_value |-> Zero, zs |-> <<>>, ds |-> <<>>, calls |-> 0,
     endHas |-> FALSE, endVal |-> Zero]

(***************************************************************************)
(* Step-level execution of simulateBrownianMotion and of the generator it   *)
(* calls: one action per statement group, so that the redraw loop of line   *)
(* 23 and the for loop of line 49 are visible steps.                        *)
(***************************************************************************)
TValues == { Num(-1000), Zero, Num(1000), Num(4000) }
NValues == 0 .. MaxN

GenIdle == [pc |-> "idle", u1 |-> 0, u2 |-> 0, ret |-> Zero, drawn0 |-> 0, u1Draws |-> 0,
            src0 |-> NoSim.start.src, hadCache |-> FALSE]
SimIdle == [pc |-> "idle", T |-> Zero, n |-> 0, sqrt_dt |-> Zero, i |-> 0,
            path_values |-> <<>>, current_value |-> Zero, zs |-> <<>>, ds |-> <<>>,
            start |-> NoSim.start, calls0 |-> 0]
RunIdle == [pc |-> "idle", T |-> Zero, n |-> Zero, m_runs |-> Zero, i |-> 0, calls |-> 0,
            single_run_data |-> [path_values |-> <<>>, final_value |-> Zero],
            final_values |-> <<>>, min_val |-> Zero, max_val |-> Zero]
NoChart == [live |-> FALSE]

InitOn(tapes) ==
    /\ source \in { [tape |-> t, pos |-> 1] : t \in tapes }
    /\ uniformsDrawn = 0
    /\ normalCalls = 0
    /\ callLog = <<>>
    /\ hasSecondBoxMuller = FALSE
    /\ secondBoxMullerValue = Zero
    /\ gen = GenIdle
    /\ sim = SimIdle
    /\ lastSim = NoSim
    /\ prevSim = NoSim
    /\ simCount = 0
    /\ run = RunIdle
    /\ brownianPathChartInstance = NoChart
    /\ finalDistributionChartInstance = NoChart
    /\ alerts = 0
    /\ runCount = 0

InitPage == InitOn(Tapes)

pageVars == <<run, brownianPathChartInstance, finalDistributionChartInstance, alerts, runCount>>
cacheVars == <<hasSecondBoxMuller, secondBoxMullerValue>>
histVars == <<lastSim, prevSim, simCount>>
countVars == <<uniformsDrawn, normalCalls, callLog>>

\* SimCall with current_value kept from the previous call instead of line 46.
SimCall_KeepCurrent(T, n) ==
    /\ sim.pc = "idle" /\ run.pc = "idle"
    /\ simCount < MaxSims
    /\ sim' = [pc |-> "for", T |-> T, n |-> n, sqrt_dt |-> SqrtDt(T, n), i |-> 0,
               path_values |-> <<>>, current_value |-> lastSim.final_value,
               zs |-> <<>>, ds |-> <<>>,
               start |-> [src |-> source, has |-> hasSecondBoxMuller,
                          val |-> secondBoxMullerValue],
               calls0 |-> normalCalls]
    /\ UNCHANGED <<source, countVars, cacheVars, gen, histVars, pageVars>>

\* simulateBrownianMotion(T, n) is called: lines 42-46
SimCall(T, n) ==
    /\ sim.pc = "idle" /\ run.pc = "idle"
    /\ simCount < MaxSims
    /\ sim' = [pc |-> "for", T |-> T, n |-> n, sqrt_dt |-> SqrtDt(T, n), i |-> 0,
               path_values |-> <<>>, current_value |-> Zero, zs |-> <<>>, ds |-> <<>>,
               start |-> [src |-> source, has |-> hasSecondBoxMuller,
                          val |-> secondBoxMullerValue],
               calls0 |-> normalCalls]
    /\ UNCHANGED <<source, countVars, cacheVars, gen, histVars, pageVars>>

\* line 49, i < n: enter the body and call generateStandardNormal (line 51)
ForEnter ==
    /\ sim.pc = "for" /\ sim.i < sim.n
    /\ sim' = [sim EXCEPT !.pc = "call"]
    /\ gen' = [GenIdle EXCEPT !.pc = "entry", !.drawn0 = uniformsDrawn, !.src0 = source,
                              !.hadCache = hasSecondBoxMuller]
    /\ normalCalls' = normalCalls + 1
    /\ UNCHANGED <<source, uniformsDrawn, callLog, cacheVars, histVars, pageVars>>

\* GenCached without line 16: the flag is left set.
GenCached_KeepFlag ==
    /\ gen.pc = "entry" /\ hasSecondBoxMuller
    /\ gen' = [gen EXCEPT !.pc = "ret", !.ret = secondBoxMullerValue]
    /\ callLog' = Logged(callLog, CallRecord(gen.hadCache, secondBoxMullerValue,
                                             uniformsDrawn - gen.drawn0, gen.u1Draws,
                                             gen.src0, hasSecondBoxMuller,
                                             secondBoxMullerValue))
    /\ UNCHANGED <<source, uniformsDrawn, normalCalls, cacheVars, sim, histVars, pageVars>>

\* lines 15-18: the cached value is returned and the flag cleared
GenCached ==
    /\ gen.pc = "entry" /\ hasSecondBoxMuller
    /\ hasSecondBoxMuller' = FALSE
    /\ gen' = [gen EXCEPT !.pc = "ret", !.ret = secondBoxMullerValue]
    /\ callLog' = Logged(callLog, CallRecord(gen.hadCache, secondBoxMullerValue,
                                             uniformsDrawn - gen.drawn0, gen.u1Draws,
                                             gen.src0, FALSE, secondBoxMullerValue))
    /\ UNCHANGED <<source, uniformsDrawn, normalCalls, secondBoxMullerValue, sim,
                   histVars, pageVars>>

\* line 15 is false: fall through to the redraw loop
GenFresh ==
    /\ gen.pc = "entry" /\ ~hasSecondBoxMuller
    /\ gen' = [gen EXCEPT !.pc = "drawU1"]
    /\ UNCHANGED <<source, countVars, cacheVars, sim, histVars, pageVars>>

\* GenDrawU1 without the while of line 23: u1 is drawn once, zero or not.
GenDrawU1_NoRedraw ==
    /\ gen.pc = "drawU1"
    /\ gen' = [gen EXCEPT !.u1 = NextUniform(source), !.u1Draws = @ + 1, !.pc = "drawU2"]
    /\ source' = Advance(source)
    /\ uniformsDrawn' = uniformsDrawn + 1
    /\ UNCHANGED <<normalCalls, callLog, cacheVars, sim, histVars, pageVars>>

\* line 23: one pass of do { u1 = Math.random(); } while (u1 === 0)
GenDrawU1 ==
    /\ gen.pc = "drawU1"
    /\ LET u == NextUniform(source)
       IN  gen' = [gen EXCEPT !.u1 = u, !.u1Draws = @ + 1,
                              !.pc = IF u = 0 THEN "drawU1" ELSE "drawU2"]
    /\ source' = Advance(source)
    /\ uniformsDrawn' = uniformsDrawn + 1
    /\ UNCHANGED <<normalCalls, callLog, cacheVars, sim, histVars, pageVars>>

\* line 24: u2 = Math.random()
GenDrawU2 ==
    /\ gen.pc = "drawU2"
    /\ gen' = [gen EXCEPT !.u2 = NextUniform(source), !.pc = "transform"]
    /\ source' = Advance(source)
    /\ uniformsDrawn' = uniformsDrawn + 1
    /\ UNCHANGED <<normalCalls, callLog, cacheVars, sim, histVars, pageVars>>

\* lines 27-37: the transform; z2 is cached, z1 returned
GenTransform ==
    /\ gen.pc = "transform"
    /\ secondBoxMullerValue' = Z2(gen.u1, gen.u2)
    /\ hasSecondBoxMuller' = TRUE
    /\ gen' = [gen EXCEPT !.pc = "ret", !.ret = Z1(gen.u1, gen.u2)]
    /\ callLog' = Logged(callLog, CallRecord(gen.hadCache, Z1(gen.u1, gen.u2),
                                             uniformsDrawn - gen.drawn0, gen.u1Draws,
                                             gen.src0, TRUE, Z2(gen.u1, gen.u2)))
    /\ UNCHANGED <<source, uniformsDrawn, normalCalls, sim, histVars, pageVars>>

\* SimBody pushing the jump instead of the running total.
SimBody_PushJump ==
    /\ sim.pc = "call" /\ gen.pc = "ret"
    /\ LET Z == gen.ret
           jump == FMul(sim.sqrt_dt, Z)
           current == FAdd(sim.current_value, jump)
       IN  sim' = [sim EXCEPT !.pc = "for", !.i = @ + 1,
                              !.current_value = current,
                              !.path_values = Append(@, jump),
                              !.zs = Append(@, Z),
                              !.ds = Append(@, uniformsDrawn - gen.drawn0)]
    /\ gen' = GenIdle
    /\ UNCHANGED <<source, countVars, cacheVars, histVars, pageVars>>

\* lines 51-58: Z is the value returned; the jump is added and the position pushed
SimBody ==
    /\ sim.pc = "call" /\ gen.pc = "ret"
    /\ LET Z == gen.ret
           jump == FMul(sim.sqrt_dt, Z)
           current == FAdd(sim.current_value, jump)
       IN  sim' = [sim EXCEPT !.pc = "for", !.i = @ + 1,
                              !.current_value = current,
                              !.path_values = Append(@, current),
                              !.zs = Append(@, Z),
                              !.ds = Append(@, uniformsDrawn - gen.drawn0)]
    /\ gen' = GenIdle
    /\ UNCHANGED <<source, countVars, cacheVars, histVars, pageVars>>

\* line 49 with i >= n, then lines 61-64: the result is returned
SimReturn ==
    /\ sim.pc = "for" /\ ~(sim.i < sim.n)
    /\ lastSim' = [T |-> sim.T, n |-> sim.n, start |-> sim.start,
                   path_values |-> sim.path_values, final_value |-> sim.current_value,
                   zs |-> sim.zs, ds |-> sim.ds, calls |-> normalCalls - sim.calls0,
                   endHas |-> hasSecondBoxMuller, endVal |-> secondBoxMullerValue]
    /\ prevSim' = lastSim
    /\ simCount' = simCount + 1
    /\ sim' = SimIdle
    /\ UNCHANGED <<source, countVars, cacheVars, gen, pageVars>>

GenSteps == GenCached \/ GenFresh \/ GenDrawU1 \/ GenDrawU2 \/ GenTransform
SimSteps == ForEnter \/ SimBody \/ SimReturn

NextPath ==
    \/ \E T \in TValues, n \in NValues : SimCall(T, n)
    \/ ForEnter
    \/ GenCached
    \/ GenFresh
    \/ GenDrawU1
    \/ GenDrawU2
    \/ GenTransform
    \/ SimBody
    \/ SimReturn

SpecPath == InitPage /\ [][NextPath]_vars

\* A started call keeps executing: JavaScript runs a function to completion.
FairSpecPath == SpecPath /\ WF_vars(GenSteps \/ SimSteps)

\* The step-level execution and the whole-call operator compute the same result.
StepsAgreeWithOperator ==
    LET g0(rec) == [src |-> rec.start.src, has |-> rec.start.has, val |-> rec.start.val,
                    drawn |-> 0, calls |-> 0, log |-> <<>>]
    IN  lastSim.n >= 0 =>
          lastSim = SimRecord(lastSim.T, lastSim.n, g0(lastSim),
                              simulateBrownianMotion(lastSim.T, lastSim.n, g0(lastSim)))

(***************************************************************************)
(* runSimulation, lines 78-107, with the charts of lines 113-250.  One      *)
(* action per call of simulateBrownianMotion; nothing else runs while the   *)
(* handler is active.                                                       *)
(***************************************************************************)
MinSteps == 100
MinRuns == 100
bins == 20

\* The text of the three input fields.
TInputs == { "", "-1", "0", "1" }
nInputs == { "", "0", "99", "100", "101" }
mInputs == { "", "0", "99", "100" }

\* parseFloat of a field: thousandths, NaN for text that is no number
parseFloat(text) ==
    CASE text = "" -> NaN
      [] text = "-1" -> Num(-1000)
      [] text = "0" -> Zero
      [] text = "1" -> Num(1000)

\* parseInt of a field: the integer itself, NaN for text that is no number
parseInt(text) ==
    CASE text = "" -> NaN
      [] text = "0" -> Num(0)
      [] text = "99" -> Num(99)
      [] text = "100" -> Num(100)
      [] text = "101" -> Num(101)

\* line 83: the request is refused
Refused(T, n, m_runs) ==
    \/ isNaN(T) \/ isNaN(n) \/ isNaN(m_runs)
    \/ FLt(n, Num(MinSteps))
    \/ FLt(m_runs, Num(MinRuns))

\* The globals of the generator take the values of g.
ApplyGlobals(g) ==
    /\ source' = g.src
    /\ hasSecondBoxMuller' = g.has
    /\ secondBoxMullerValue' = g.val
    /\ uniformsDrawn' = g.drawn
    /\ normalCalls' = g.calls
    /\ callLog' = g.log

chartVars == <<brownianPathChartInstance, finalDistributionChartInstance>>

\* lines 79-86: the guard fails, an alert is shown and the handler returns
RunReject(tT, tn, tm) ==
    LET T == parseFloat(tT)
        n == parseInt(tn)
        m_runs == parseInt(tm)
    IN  /\ run.pc = "idle" /\ sim.pc = "idle"
        /\ runCount < MaxRuns
        /\ Refused(T, n, m_runs)
        /\ alerts' = alerts + 1
        /\ runCount' = runCount + 1
        /\ run' = [RunIdle EXCEPT !.T = T, !.n = n, !.m_runs = m_runs]
        /\ UNCHANGED <<source, countVars, cacheVars, gen, sim, histVars, chartVars>>

\* lines 79-94: the guard passes; the single path is simulated, the ensemble initialised
RunStart(tT, tn, tm) ==
    LET T == parseFloat(tT)
        n == parseInt(tn)
        m_runs == parseInt(tm)
    IN  /\ run.pc = "idle" /\ sim.pc = "idle"
        /\ runCount < MaxRuns
        /\ ~Refused(T, n, m_runs)
        /\ runCount' = runCount + 1
        /\ \E res \in { simulateBrownianMotion(T, n.v, Globals) } :
             /\ run' = [pc |-> "loop", T |-> T, n |-> n, m_runs |-> m_runs,
                        i |-> 0, calls |-> 0,
                        single_run_data |-> [path_values |-> res.path_values,
                                             final_value |-> res.final_value],
                        final_values |-> <<>>, min_val |-> PosInf, max_val |-> NegInf]
             /\ ApplyGlobals(res.g)
             /\ lastSim' = SimRecord(T, n.v, Globals, res)
        /\ prevSim' = lastSim
        /\ UNCHANGED <<gen, sim, simCount, chartVars, alerts>>

\* lines 96-102: one iteration of the ensemble loop
RunLoop ==
    /\ run.pc = "loop" /\ run.i < run.m_runs.v
    /\ \E result \in { simulateBrownianMotion(run.T, run.n.v, Globals) } :
       LET final_x == result.final_value
       IN  /\ run' = [run EXCEPT !.i = @ + 1, !.calls = @ + 1,
                                 !.final_values = Append(@, final_x),
                                 !.min_val = IF FLt(final_x, @) THEN final_x ELSE @,
                                 !.max_val = IF FGt(final_x, @) THEN final_x ELSE @]
           /\ ApplyGlobals(result.g)
           /\ lastSim' = SimRecord(run.T, run.n.v, Globals, result)
           /\ prevSim' = lastSim
    /\ UNCHANGED <<gen, sim, simCount, chartVars, alerts, runCount>>

\* (val - min_val) / binWidth floored (line 180); binWidth = range / bins is kept
\* exactly: d and range are in thousandths, so the quotient is d * bins / range.
FloorQuotient(d, range) ==
    CASE isNaN(d) \/ isNaN(range) -> NaN
      [] d.k = "inf" /\ range.k = "inf" -> NaN
      [] d.k = "inf" -> IF range.v >= 0 THEN d ELSE FNeg(d)
      [] range.k = "inf" -> Zero
      [] range.v = 0 -> IF d.v = 0 THEN NaN ELSE IF d.v > 0 THEN PosInf ELSE NegInf
      [] range.v > 0 -> Num((d.v * bins) \div range.v)
      [] OTHER -> Num(((-d.v) * bins) \div (-range.v))

\* lines 180-182: the bin index of one value, an integer record or NaN
BinIndex(val, min_val, range) ==
    LET binIndex == FloorQuotient(FSub(val, min_val), range)
        high == IF ~FLt(binIndex, Num(bins)) /\ ~isNaN(binIndex) THEN Num(bins - 1) ELSE binIndex
    IN  IF FLt(high, Zero) THEN Zero ELSE high

\* line 183, histogram[binIndex]++: counts[i + 1] is histogram[i]; stray counts the
\* increments that land on a property other than the indexes 0 .. bins - 1
Increment(h, b) ==
    IF IsFinite(b) /\ b.v \in 0 .. bins - 1
    THEN [h EXCEPT !.counts[b.v + 1] = @ + 1, !.seen = @ + 1]
    ELSE [h EXCEPT !.stray = @ + 1, !.seen = @ + 1]

\* lines 179-184: final_values.forEach; seen is the number of values visited
RECURSIVE BuildHistogram(_, _, _, _)
BuildHistogram(values, min_val, range, h) ==
    IF h.seen < Len(values)
    THEN BuildHistogram(values, min_val, range,
                        Increment(h, BinIndex(values[h.seen + 1], min_val, range)))
    ELSE h

\* lines 196-197: (histogram[i] / m_runs) / binWidth in thousandths
ObservedDensity(count, m_runs, range) ==
    CASE isNaN(range) -> NaN
      [] range.k = "inf" -> Zero
      [] range.v = 0 -> IF count = 0 THEN NaN ELSE PosInf
      [] OTHER -> Num((((count * 1000) \div m_runs) * (bins * 1000)) \div range.v)

\* lines 164-249: the chart that replaces finalDistributionChartInstance
renderFinalDistribution(T, m_runs, final_values, min_val, max_val) ==
    LET range == FSub(max_val, min_val)
        h == BuildHistogram(final_values, min_val, range,
                            [counts |-> [i \in 1 .. bins |-> 0], stray |-> 0, seen |-> 0])
    IN  [live |-> TRUE,
         samples |-> Len(final_values),
         values |-> final_values,
         histogram |-> h,
         min_val |-> min_val, max_val |-> max_val, range |-> range,
         binIndexes |-> [j \in 1 .. Len(final_values) |->
                            BinIndex(final_values[j], min_val, range)],
         observed_densities |-> [i \in 1 .. bins |->
                                   ObservedDensity(h.counts[i], m_runs, range)]]

\* lines 113-160: the chart that replaces brownianPathChartInstance
renderBrownianPath(T, n, path_values) ==
    [live |-> TRUE, labels |-> n, data |-> path_values]

\* line 96 with i >= m_runs, then lines 105-106: both charts are rendered
RunRender ==
    /\ run.pc = "loop" /\ ~(run.i < run.m_runs.v)
    /\ brownianPathChartInstance' =
          renderBrownianPath(run.T, run.n.v, run.single_run_data.path_values)
    /\ finalDistributionChartInstance' =
          renderFinalDistribution(run.T, run.m_runs.v, run.final_values,
                                  run.min_val, run.max_val)
    /\ run' = [run EXCEPT !.pc = "idle"]
    /\ UNCHANGED <<source, countVars, cacheVars, gen, sim, histVars, alerts, runCount>>

NextRun ==
    \/ \E tT \in TInputs, tn \in nInputs, tm \in mInputs : RunReject(tT, tn, tm)
    \/ \E tT \in TInputs, tn \in nInputs, tm \in mInputs : RunStart(tT, tn, tm)
    \/ RunLoop
    \/ RunRender

\* The page loaded with one of two streams: one of period 2, one with zeros in it.
RunTapes == { <<1, 3>>, <<3, 0, 0, 2, 1>> }
InitRun == InitOn(RunTapes)

SpecRun == InitRun /\ [][NextRun]_vars

(***************************************************************************)
(* Properties of the generator and of one path (SpecPath, FairSpecPath).    *)
(***************************************************************************)
\* C1: calls of generateStandardNormal alternate strictly.  A call that finds
\* the flag false draws from the uniform source, returns z1 of the two
\* uniforms it accepted, stores their z2 and sets the flag; the very next
\* call returns exactly that stored z2, clears the flag and draws no uniform.
C1_Alternates ==
    /\ \A j \in 1 .. Len(callLog) :
         LET c == callLog[j]
         IN  IF c.hadCache
             THEN c.consumed = 0 /\ ~c.flagAfter
             ELSE /\ c.consumed >= 2
                  /\ c.flagAfter
                  /\ c.ret = Z1(UniformAt(c.src0, c.u1Draws - 1), UniformAt(c.src0, c.u1Draws))
                  /\ c.stored = Z2(UniformAt(c.src0, c.u1Draws - 1), UniformAt(c.src0, c.u1Draws))
    /\ Len(callLog) = 1 => ~callLog[1].hadCache
    /\ Len(callLog) = 2 =>
         /\ callLog[2].hadCache = ~callLog[1].hadCache
         /\ callLog[2].hadCache => callLog[2].ret = callLog[1].stored
    /\ (gen.pc \in {"idle", "ret"} /\ Len(callLog) >= 1) =>
         hasSecondBoxMuller = callLog[Len(callLog)].flagAfter

\* A cached call has just returned a non-zero z2 stored by the call before it.
C1_Witness ==
    /\ Len(callLog) = 2
    /\ callLog[2].hadCache
    /\ callLog[2].ret = callLog[1].stored
    /\ callLog[2].ret # Zero

\* C2: for T > 0 and n >= 1 a completed simulateBrownianMotion(T, n) has called
\* the generator exactly n times, returns a path of length n whose last
\* element is the final value, and each element is the previous one (0 before
\* the first) plus sqrt(T/n) times the variate drawn at that step.
C2_PathShape ==
    (lastSim.n >= 1 /\ FGt(lastSim.T, Zero)) =>
        /\ lastSim.calls = lastSim.n
        /\ Len(lastSim.zs) = lastSim.n
        /\ Len(lastSim.path_values) = lastSim.n
        /\ lastSim.path_values[lastSim.n] = lastSim.final_value
        /\ \A i \in 1 .. lastSim.n :
             lastSim.path_values[i] =
                FAdd(IF i = 1 THEN Zero ELSE lastSim.path_values[i - 1],
                     FMul(SqrtDt(lastSim.T, lastSim.n), lastSim.zs[i]))

\* A path of at least two steps with T > 0 that started from a cached value has returned.
C2_Witness ==
    /\ lastSim.n >= 2
    /\ FGt(lastSim.T, Zero)
    /\ lastSim.start.has
    /\ lastSim.final_value # Zero

\* Two completed calls with the same T and n, fed the same uniform stream.
SameRequest ==
    /\ prevSim.n >= 1 /\ lastSim.n >= 1
    /\ lastSim.T = prevSim.T /\ lastSim.n = prevSim.n
    /\ lastSim.start.src = prevSim.start.src

RECURSIVE SumCounts(_, _)
SumCounts(counts, k) == IF k = 0 THEN 0 ELSE counts[k] + SumCounts(counts, k - 1)

Rendered == finalDistributionChartInstance.live

\* C3: once the histogram is built from an ensemble of m terminal values, the
\* 20 bin counts are non-negative and sum to exactly m, for every ensemble.
C3_CountsSumToM ==
    Rendered =>
        LET h == finalDistributionChartInstance.histogram
        IN  /\ \A i \in 1 .. bins : h.counts[i] >= 0
            /\ SumCounts(h.counts, bins) = finalDistributionChartInstance.samples

\* C4: when all m terminal values are identical (max == min) the aggregation
\* yields defined bin indexes and densities, with all m samples in bin 0.
C4_DegenerateHandled ==
    (Rendered /\ FEq(finalDistributionChartInstance.min_val,
                     finalDistributionChartInstance.max_val)) =>
        LET c == finalDistributionChartInstance
        IN  /\ \A j \in 1 .. c.samples : ~isNaN(c.binIndexes[j])
            /\ \A i \in 1 .. bins : ~isNaN(c.observed_densities[i])
            /\ c.histogram.counts[1] = c.samples

\* C5: a request with T <= 0, n <= 0 or m <= 0 is rejected before any
\* simulation work begins, so the handler is only ever past its guard with
\* T > 0, n > 0 and m > 0.
C5_RejectsInvalid ==
    run.pc # "idle" =>
        /\ FGt(run.T, Zero)
        /\ FGt(run.n, Zero)
        /\ FGt(run.m_runs, Zero)

\* The ensemble loop of lines 96-102 has finished and nothing is rendered yet.
LoopDone == run.pc = "loop" /\ ~(run.i < run.m_runs.v)

\* C7: for m >= 1 the loop has called simulateBrownianMotion exactly m times
\* and ends with m final values, min_val the smallest and max_val the largest
\* of them, so that min_val <= v <= max_val for every collected v.
C7_EnsembleLoop ==
    (LoopDone /\ run.m_runs.v >= 1) =>
        /\ run.calls = run.m_runs.v
        /\ Len(run.final_values) = run.m_runs.v
        /\ \E j \in 1 .. Len(run.final_values) : FEq(run.final_values[j], run.min_val)
        /\ \E j \in 1 .. Len(run.final_values) : FEq(run.final_values[j], run.max_val)
        /\ \A j \in 1 .. Len(run.final_values) :
             /\ FLe(run.min_val, run.final_values[j])
             /\ FLe(run.final_values[j], run.max_val)

\* C8: every terminal value gets a bin index in 0 .. 19, the value equal to
\* min in bin 0 and the value equal to max in bin 19, and no increment lands
\* anywhere but on the 20 counters.
C8_BinIndexInRange ==
    Rendered =>
        LET c == finalDistributionChartInstance
        IN  /\ \A j \in 1 .. c.samples :
                 /\ IsFinite(c.binIndexes[j])
                 /\ c.binIndexes[j].v \in 0 .. bins - 1
                 /\ FEq(c.values[j], c.min_val) => c.binIndexes[j].v = 0
                 /\ FEq(c.values[j], c.max_val) => c.binIndexes[j].v = bins - 1
            /\ c.histogram.stray = 0

\* C9: the cache is never reset at a path or run boundary.  The flag is set
\* exactly when the number of generator calls since page load is odd; and
\* after a path with odd n that started from an empty cache, the next path
\* starts with the cached z2 of that path and draws no uniform for it.
C9_CacheNeverReset ==
    /\ hasSecondBoxMuller <=> (normalCalls % 2 = 1)
    /\ (prevSim.n >= 1 /\ prevSim.n % 2 = 1 /\ ~prevSim.start.has) =>
          /\ prevSim.endHas
          /\ lastSim.start.has
          /\ lastSim.zs[1] = prevSim.endVal
          /\ lastSim.ds[1] = 0

\* The first path of a second runSimulation has started with the value cached
\* by the last path, of odd length, of the first one.
C9_Witness ==
    /\ runCount = 2 /\ run.pc = "loop" /\ run.i = 0
    /\ prevSim.n % 2 = 1 /\ ~prevSim.start.has
    /\ lastSim.start.has
    /\ lastSim.zs[1] = prevSim.endVal
    /\ lastSim.zs[1] # Zero

====
